---- MODULE Spec2Model ----
(***************************************************************************)
(* The global channel service of pomelo2-globalchannel: a registry of      *)
(* (channel, user, server) memberships kept in three redis indexes, a      *)
(* three-state lifecycle gate in front of it, and the fan-out of a push    *)
(* to every frontend server that holds members of a channel.               *)
(*                                                                         *)
(* The repository holds the service twice with the three-index design:     *)
(*   impl = "components"  src/src/components/globalChannel.ts              *)
(*       keys  user.<uid>.sids  (set of JSON {name,sid}),                  *)
(*             <name>:<sid>     (set of uid),  <name> (hash uid -> sid)    *)
(*   impl = "test"  src/src/test/globalchannel.test.ts, lines 74-377, the  *)
(*       service the test of lines 17-72 and typings/globalchannel.d.ts    *)
(*       describe (destroy, len, members, ismember, channels)              *)
(*       keys  u#<uid> (hash name -> sid), s#<name>:<sid> (set of uid),    *)
(*             c#<name> (hash uid -> sid)                                  *)
(* Init chooses which of the two runs; every action is the code of one of  *)
(* them.  The single-index service of lines 379-658 of the test file has   *)
(* no channel map and no user map and is not modelled.                     *)
(*                                                                         *)
(* A redis command takes effect when it is issued (one connection, served  *)
(* in order); the async function that awaits it resumes in a later step,   *)
(* so every awaited command is a suspension point between two actions.     *)
(***************************************************************************)
EXTENDS Integers, Sequences, FiniteSets, TLC

\* ------------------------------------------------------------------ bounds
\* facade calls made in one behaviour
MaxCalls == 2
\* facade calls awaited by their callers at the same time
MaxInFlight == 1
\* how often the connection is lost and made again
MaxReconnects == 1

\* the callers' channels, users and servers.  The second channel bears the
\* name that the name of the first and the id of the first server make when
\* they are written side by side.
JoinedName == "lobbysrvA"
ChannelOrder == <<"lobby", JoinedName>>
UserOrder == <<"u1", "u2">>
ServerOrder == <<"srvA", "srvB">>

\* a name as the pieces of text it is written with: two key names are the
\* same text exactly when their pieces are the same
Pieces(str) == IF str = JoinedName THEN <<ChannelOrder[1], ServerOrder[1]>> ELSE <<str>>

Range(s) == {s[i] : i \in DOMAIN s}
Channels == Range(ChannelOrder)
Users == Range(UserOrder)
Servers == Range(ServerOrder)
Impls == {"components", "test"}

\* enum STATE
ST_INITED == 0
ST_STARTED == 1
ST_CLOSED == 2

\* null / an omitted argument / a missing hash field
Nil == "null"
\* what `return` without a value gives the caller
Undefined == "undefined"
\* the async function rejected
Threw == "threw"
ReferenceError == "ReferenceError"

VARIABLES
    impl,       \* which ChannelService / ChannelManager pair is running
    cleanOnStartUp, \* opts.cleanOnStartUp
    callers,    \* how many facade calls the callers keep awaiting at a time
    started,    \* the callback given to start() has been called
    state,      \* ChannelService.state
    redis,      \* ChannelManager.redis: "undefined", "open", "quit"
    readyDue,   \* the connection's 'ready' event is still to be delivered
    reconnects, \* how often the connection was lost and made again
    cHash,      \* hash c#<name> / <name>:            name -> (uid -> sid)
    sSet,       \* set  s#<name>:<sid> / <name>:<sid>: name -> (sid -> uids)
    uHash,      \* hash u#<uid> (test):                uid -> (name -> sid)
    uSids,      \* set  user.<uid>.sids (components):  uid -> {<<name, sid>>}
    inflight,   \* the async activations suspended at an awaited command
    last,       \* the facade call that returned last, and what it returned
    snap,       \* the store as it was when the latest call passed the gate
    ncalls,     \* facade calls made so far
    serial      \* every call so far was issued with nothing else in flight

vars == <<impl, cleanOnStartUp, callers, started, state, redis, readyDue, reconnects,
          cHash, sSet, uHash, uSids, inflight, last, snap, ncalls, serial>>

store == <<cHash, sSet, uHash, uSids>>
life == <<cleanOnStartUp, callers, started, state, redis, readyDue, reconnects>>

\* ------------------------------------------------------------- the store
\* variants of the store in which a command has no effect or counts wrongly;
\* the properties of add, leave and len must tell them from the store
HSetNone(h, field, value) == h
HDelNone(h, field) == h
HLenAll(h) == Cardinality(DOMAIN h)
HDelAll(h, field) == [f \in DOMAIN h |-> Nil]
HSetToggle(h, field, value) == [h EXCEPT ![field] = IF @ = value THEN Nil ELSE value]

\* redis HSET key field value
HSet(h, field, value) == [h EXCEPT ![field] = value]
\* redis HDEL key field
HDel(h, field) == [h EXCEPT ![field] = Nil]
\* redis HGET key field
HGet(h, field) == h[field]
\* redis HKEYS key
HKeys(h) == {f \in DOMAIN h : h[f] # Nil}
\* redis HLEN key
HLen(h) == Cardinality(HKeys(h))
\* redis HEXISTS key field
HExists(h, field) == h[field] # Nil

\* the order in which a reply lists the elements of a set (redis promises none;
\* the model lists them in the order of `order`)
SeqOf(S, order) == SelectSeq(order, LAMBDA x : x \in S)

\* the names of the keys, as the code builds them
HashKey(name) == IF impl = "test" THEN <<"c#">> \o Pieces(name) ELSE Pieces(name)
SetKey(name, sid) == IF impl = "test" THEN <<"s#">> \o Pieces(name) \o <<":", sid>>
                     ELSE Pieces(name) \o <<":", sid>>
UserKey(uid) == IF impl = "test" THEN <<"u#", uid>> ELSE <<"user.", uid, ".sids">>

\* opts.options.keyPrefix: ioredis puts it in front of every key a command names
KeyPrefix == "keyPrefix#"
Prefixed(key) == <<KeyPrefix>> \o key

\* the keys the store holds, by their full names
ExistingKeys ==
    {Prefixed(HashKey(c)) : c \in {x \in Channels : HKeys(cHash[x]) # {}}}
    \cup {Prefixed(SetKey(cs[1], cs[2])) :
             cs \in {x \in Channels \X Servers : sSet[x[1]][x[2]] # {}}}
    \cup {Prefixed(UserKey(u)) :
             u \in {x \in Users : IF impl = "test" THEN HKeys(uHash[x]) # {}
                                  ELSE uSids[x] # {}}}

\* redis DEL key ...: the store with every key named in `keys` removed; the
\* key a name reaches is the name with the prefix in front
DelC(keys) == [c \in Channels |->
                 IF Prefixed(HashKey(c)) \in {Prefixed(k) : k \in keys} THEN [u \in Users |-> Nil] ELSE cHash[c]]
DelS(keys) == [c \in Channels |-> [s \in Servers |->
                 IF Prefixed(SetKey(c, s)) \in {Prefixed(k) : k \in keys} THEN {} ELSE sSet[c][s]]]
DelUH(keys) == [u \in Users |->
                 IF impl = "test" /\ Prefixed(UserKey(u)) \in {Prefixed(k) : k \in keys}
                 THEN [c \in Channels |-> Nil] ELSE uHash[u]]
DelUS(keys) == [u \in Users |->
                 IF impl = "components" /\ Prefixed(UserKey(u)) \in {Prefixed(k) : k \in keys}
                 THEN {} ELSE uSids[u]]

\* a connection that serves commands whatever was done to it
ConnectedAlways == TRUE

\* a command issued on a connection that was quit is rejected; on an open one it
\* is served (ioredis queues it while the connection is still being set up)
Connected == redis = "open"

\* ------------------------------------------------------------ activations
\* a returned call without its history
Brief(r) == [op |-> r.op, name |-> r.name, uid |-> r.uid, sid |-> r.sid, ret |-> r.ret]

NoCall == [op |-> "none", name |-> Nil, uid |-> Nil, sid |-> Nil, ret |-> Undefined,
           invoked |-> <<>>, dir |-> <<>>, reports |-> <<>>, lookups |-> 0,
           prev |-> [op |-> "none", name |-> Nil, uid |-> Nil, sid |-> Nil,
                     ret |-> Undefined]]

\* what a caller sees of a call that returns now: its arguments (Nil when the
\* gate refused it), what it returned, the remote calls it made, the directory
\* a push found, what the called servers reported, how many member lists a
\* push awaited, and the call that had returned before it
Returned(op, name, uid, sid, ret, invoked) ==
    [op |-> op, name |-> name, uid |-> uid, sid |-> sid, ret |-> ret,
     invoked |-> invoked, dir |-> <<>>, reports |-> <<>>, lookups |-> 0,
     prev |-> Brief(last)]

\* an activation: caller = TRUE when a facade caller awaits it; reply is what
\* the awaited command answered; todo, acc and invoked are the locals of a loop,
\* reports the failure lists the called servers answered with, lookups the
\* number of member lists the loop has awaited
Act(op, name, uid, sid, pc, reply, caller) ==
    [op |-> op, name |-> name, uid |-> uid, sid |-> sid, pc |-> pc,
     reply |-> reply, caller |-> caller, todo |-> <<>>, acc |-> <<>>,
     invoked |-> <<>>, dir |-> <<>>, reports |-> <<>>, lookups |-> 0]

RemoveAt(s, i) == [j \in 1..(Len(s) - 1) |-> IF j < i THEN s[j] ELSE s[j + 1]]

Awaited == {i \in 1..Len(inflight) : inflight[i].caller}

Quiescent == Len(inflight) = 0

\* the state gate every facade operation starts with, and the manager's
\* `if (!this.redis) return`
Gated == state # ST_STARTED \/ redis = "undefined"

\* a facade call may be issued
CanCall == ncalls < MaxCalls /\ Cardinality(Awaited) < callers

\* bookkeeping of a facade call: count it, note an
\* overlap, remember the store it found
Issue ==
    /\ ncalls' = ncalls + 1
    /\ serial' = (serial /\ (Gated \/ Quiescent))
    /\ snap' = IF Gated THEN snap ELSE store

\* the facade call returns at once
ReturnNow(op, name, uid, sid, ret) ==
    /\ last' = Returned(op, name, uid, sid, ret, <<>>)
    /\ inflight' = inflight

\* the facade call suspends at its first awaited command
Suspend(act) ==
    /\ inflight' = Append(inflight, act)
    /\ last' = last

\* activation i ends; a facade caller gets ret
Finish(i, ret) ==
    /\ inflight' = RemoveAt(inflight, i)
    /\ last' = IF inflight[i].caller
               THEN Returned(inflight[i].op, inflight[i].name, inflight[i].uid,
                             inflight[i].sid, ret, inflight[i].invoked)
               ELSE last

\* activation i moves to its next awaited command
Goto(i, pc, reply) ==
    /\ inflight' = [inflight EXCEPT ![i].pc = pc, ![i].reply = reply]
    /\ last' = last

\* activation i of implementation im, running op, suspended at one of pcs
At(i, im, op, pcs) ==
    /\ i \in 1..Len(inflight)
    /\ impl = im
    /\ inflight[i].op = op
    /\ inflight[i].pc \in pcs

\* ------------------------------------------------------------- lifecycle
\* ChannelService.start -> ChannelManager.start: a new connection.  The host
\* starts a component once: a second start() of one instance is not modelled.
Start ==
    /\ redis = "undefined"
    /\ redis' = "open"
    /\ readyDue' = TRUE
    /\ UNCHANGED <<impl, cleanOnStartUp, callers, started, state, reconnects, store,
                   inflight, last, snap, ncalls, serial>>

\* the order in which a reply lists keys
RECURSIVE Listing(_)
Listing(S) == IF S = {} THEN <<>>
              ELSE LET x == CHOOSE y \in S : TRUE IN <<x>> \o Listing(S \ {x})

\* k.replace(keyPrefix, ''): the first occurrence of the prefix goes
Replace(k) ==
    IF \E j \in 1..Len(k) : k[j] = KeyPrefix
    THEN RemoveAt(k, CHOOSE j \in 1..Len(k) :
                        k[j] = KeyPrefix /\ \A m \in 1..(j - 1) : k[m] # KeyPrefix)
    ELSE k

\* a ready callback that leaves the state as it finds it
AfterReadyKeep(st) == st

\* `this.state = STATE.ST_STARTED`, the first statement of the callback
AfterReady(st) == ST_STARTED

\* redis.on('ready') -> the callback of ChannelService.start: the state becomes
\* ST_STARTED whatever it was; then either the sweep starts (its first command,
\* KEYS or SCAN, is issued here and rejected on a connection that was quit, and
\* then nobody calls cb) or cb is called
Ready ==
    /\ readyDue
    /\ readyDue' = FALSE
    /\ state' = AfterReady(state)
    /\ IF ~cleanOnStartUp
       THEN started' = TRUE /\ inflight' = inflight
       ELSE /\ started' = started
            /\ inflight' =
                 IF ~Connected THEN inflight
                 ELSE IF impl = "test"
                 THEN Append(inflight, [Act("cleanup", Nil, Nil, Nil, "scan", Nil, FALSE)
                                          EXCEPT !.todo = Listing(ExistingKeys)])
                 ELSE Append(inflight, Act("clean", Nil, Nil, Nil, "keys",
                                           Listing(ExistingKeys), FALSE))
    /\ UNCHANGED <<impl, cleanOnStartUp, callers, redis, reconnects, store, last, snap,
                   ncalls, serial>>

\* ChannelManager.cleanup (test), resumed with a batch of SCAN: the first n of
\* the keys the cursor has not walked yet.  del(...keys) is not awaited and
\* names the keys as SCAN gave them; the loop goes on until the cursor is '0'.
T_cleanup_batch(i, n) ==
    /\ At(i, "test", "cleanup", {"scan"})
    /\ n \in 0..Len(inflight[i].todo)
    /\ n = 0 => inflight[i].todo = <<>>
    /\ LET elements == SubSeq(inflight[i].todo, 1, n)
           rest == SubSeq(inflight[i].todo, n + 1, Len(inflight[i].todo))
           keys == {elements[j] : j \in {m \in 1..n : Replace(elements[m]) # <<>>}}
       IN /\ IF keys # {} /\ Connected
             THEN /\ cHash' = DelC(keys)
                  /\ sSet' = DelS(keys)
                  /\ uHash' = DelUH(keys)
                  /\ uSids' = DelUS(keys)
             ELSE UNCHANGED store
          /\ IF rest = <<>>
             THEN inflight' = RemoveAt(inflight, i) /\ started' = TRUE
             ELSE /\ started' = started
                  /\ inflight' = IF Connected
                                 THEN [inflight EXCEPT ![i].todo = rest]
                                 ELSE RemoveAt(inflight, i)
    /\ UNCHANGED <<impl, cleanOnStartUp, callers, state, redis, readyDue, reconnects,
                   last, snap, ncalls, serial>>

\* ChannelManager.clean (components), resumed with the reply of KEYS: the
\* prefix is cut off every name and the names are deleted in one awaited DEL
C_clean_del(i) ==
    /\ At(i, "components", "clean", {"keys"})
    /\ LET keys == inflight[i].reply
           cmds == {Replace(keys[j]) : j \in 1..Len(keys)}
       IN IF cmds = {}
          THEN /\ inflight' = RemoveAt(inflight, i)
               /\ started' = TRUE
               /\ UNCHANGED store
          ELSE IF ~Connected
          THEN /\ inflight' = RemoveAt(inflight, i)
               /\ started' = started
               /\ UNCHANGED store
          ELSE /\ inflight' = [inflight EXCEPT ![i].pc = "del", ![i].reply = Nil]
               /\ started' = started
               /\ cHash' = DelC(cmds)
               /\ sSet' = DelS(cmds)
               /\ uHash' = DelUH(cmds)
               /\ uSids' = DelUS(cmds)
    /\ UNCHANGED <<impl, cleanOnStartUp, callers, state, redis, readyDue, reconnects,
                   last, snap, ncalls, serial>>

\* ChannelManager.clean, resumed after DEL: clean() resolves and cb is called
C_clean_done(i) ==
    /\ At(i, "components", "clean", {"del"})
    /\ inflight' = RemoveAt(inflight, i)
    /\ started' = TRUE
    /\ UNCHANGED <<impl, cleanOnStartUp, callers, state, redis, readyDue, reconnects,
                   store, last, snap, ncalls, serial>>

\* the KEYS / SCAN the sweep awaits is rejected (the server answers with an
\* error, or the connection gives up on the command): cleanup() / clean()
\* rejects, `.then(() => cb())` has no second argument and no catch, and cb is
\* not called
SweepRejects(i) ==
    /\ i \in 1..Len(inflight)
    /\ inflight[i].op \in {"cleanup", "clean"}
    /\ inflight[i].pc \in {"scan", "keys"}
    /\ inflight' = RemoveAt(inflight, i)
    /\ UNCHANGED <<impl, life, store, last, snap, ncalls, serial>>

\* the open connection is lost and ioredis makes it again: the listener that
\* `this.redis.on('ready', ..)` registered, with `on` and not `once`, is due
\* once more
Reconnect ==
    /\ redis = "open"
    /\ ~readyDue
    /\ reconnects < MaxReconnects
    /\ reconnects' = reconnects + 1
    /\ readyDue' = TRUE
    /\ UNCHANGED <<impl, cleanOnStartUp, callers, started, state, redis, store,
                   inflight, last, snap, ncalls, serial>>

\* ChannelService.stop -> ChannelManager.stop
Stop ==
    /\ state' = ST_CLOSED
    /\ redis' = IF redis = "undefined" THEN redis ELSE "quit"
    /\ UNCHANGED <<impl, cleanOnStartUp, callers, started, readyDue, reconnects, store,
                   inflight, last, snap, ncalls, serial>>

\* ------------------------------ test file: add (lines 187-199, 306-312)
\* ChannelService.add gate, ChannelManager.add up to `await hget(u#uid, name)`
T_add(name, uid, sid) ==
    /\ impl = "test"
    /\ CanCall
    /\ Issue
    /\ IF Gated
       THEN ReturnNow("add", Nil, Nil, Nil, Undefined)
       ELSE IF ~Connected
       THEN ReturnNow("add", name, uid, sid, Threw)
       ELSE Suspend(Act("add", name, uid, sid, "hget", HGet(uHash[uid], name), TRUE))
    /\ UNCHANGED <<impl, life, store>>

\* `if (o) await srem(s#name:sid, uid)`: the set retracted is that of the sid
\* passed to this add, not that of the server o read from u#uid
T_add_srem(i) ==
    /\ At(i, "test", "add", {"hget"})
    /\ inflight[i].reply # Nil
    /\ LET a == inflight[i] IN
       IF Connected
       THEN /\ sSet' = [sSet EXCEPT ![a.name][a.sid] = @ \ {a.uid}]
            /\ Goto(i, "srem", Nil)
       ELSE /\ sSet' = sSet
            /\ Finish(i, Threw)
    /\ UNCHANGED <<impl, life, cHash, uHash, uSids, snap, ncalls, serial>>

\* `await hset(u#uid, name, sid)`
T_add_hsetU(i) ==
    /\ \/ At(i, "test", "add", {"hget"}) /\ inflight[i].reply = Nil
       \/ At(i, "test", "add", {"srem"})
    /\ LET a == inflight[i] IN
       IF Connected
       THEN /\ uHash' = [uHash EXCEPT ![a.uid] = HSet(@, a.name, a.sid)]
            /\ Goto(i, "hsetU", Nil)
       ELSE /\ uHash' = uHash
            /\ Finish(i, Threw)
    /\ UNCHANGED <<impl, life, cHash, sSet, uSids, snap, ncalls, serial>>

\* `await sadd(s#name:sid, uid)`
T_add_sadd(i) ==
    /\ At(i, "test", "add", {"hsetU"})
    /\ LET a == inflight[i] IN
       IF Connected
       THEN /\ sSet' = [sSet EXCEPT ![a.name][a.sid] = @ \cup {a.uid}]
            /\ Goto(i, "sadd", Nil)
       ELSE /\ sSet' = sSet
            /\ Finish(i, Threw)
    /\ UNCHANGED <<impl, life, cHash, uHash, uSids, snap, ncalls, serial>>

\* `await hset(c#name, uid, sid)`
T_add_hsetC(i) ==
    /\ At(i, "test", "add", {"sadd"})
    /\ LET a == inflight[i] IN
       IF Connected
       THEN /\ cHash' = [cHash EXCEPT ![a.name] = HSet(@, a.uid, a.sid)]
            /\ Goto(i, "hsetC", Nil)
       ELSE /\ cHash' = cHash
            /\ Finish(i, Threw)
    /\ UNCHANGED <<impl, life, sSet, uHash, uSids, snap, ncalls, serial>>

\* the last await of an add settles: the call returns
T_add_return(i) ==
    /\ At(i, "test", "add", {"hsetC"})
    /\ Finish(i, Undefined)
    /\ UNCHANGED <<impl, life, store, snap, ncalls, serial>>

\* ------------------------------ test file: leave (lines 201-209, 314-320)
\* the three removals of ChannelManager.leave, none of them awaited
T_leaveWrites(name, uid, sid) ==
    /\ uHash' = IF Connected THEN [uHash EXCEPT ![uid] = HDel(@, name)] ELSE uHash
    /\ cHash' = IF Connected THEN [cHash EXCEPT ![name] = HDel(@, uid)] ELSE cHash
    /\ sSet' = IF Connected /\ sid # Nil
               THEN [sSet EXCEPT ![name][sid] = @ \ {uid}] ELSE sSet
    /\ uSids' = uSids

\* ChannelService.leave gate; `sid = sid || (await hget(u#uid, channel))`
T_leave(name, uid, sid) ==
    /\ impl = "test"
    /\ CanCall
    /\ Issue
    /\ IF Gated
       THEN /\ ReturnNow("leave", Nil, Nil, Nil, Undefined)
            /\ UNCHANGED store
       ELSE IF sid # Nil
       THEN /\ T_leaveWrites(name, uid, sid)
            /\ ReturnNow("leave", name, uid, sid, Undefined)
       ELSE IF ~Connected
       THEN /\ ReturnNow("leave", name, uid, sid, Threw)
            /\ UNCHANGED store
       ELSE /\ Suspend(Act("leave", name, uid, Nil, "hget",
                           HGet(uHash[uid], name), TRUE))
            /\ UNCHANGED store
    /\ UNCHANGED <<impl, life>>

\* the reply of hget resumes a leave (a caller's, or one started by destroy)
T_leave_resume(i) ==
    /\ At(i, "test", "leave", {"hget"})
    /\ T_leaveWrites(inflight[i].name, inflight[i].uid, inflight[i].reply)
    /\ Finish(i, Undefined)
    /\ UNCHANGED <<impl, life, snap, ncalls, serial>>

\* ------------------------------ test file: destroy (lines 167-177, 290-296)
\* ChannelService.destroy gate; `await this.members(channel)` = hkeys(c#channel)
T_destroy(name) ==
    /\ impl = "test"
    /\ CanCall
    /\ Issue
    /\ IF Gated
       THEN ReturnNow("destroy", Nil, Nil, Nil, Undefined)
       ELSE IF ~Connected
       THEN ReturnNow("destroy", name, Nil, Nil, Threw)
       ELSE Suspend(Act("destroy", name, Nil, Nil, "hkeys",
                        SeqOf(HKeys(cHash[name]), UserOrder), TRUE))
    /\ UNCHANGED <<impl, life, store>>

\* `members.forEach((uid) => this.leave(channel, uid))`: each leave runs to its
\* `await hget` and stays suspended there; nobody awaits it.  On a connection
\* that was quit the hget rejects and the leave ends there.
SpawnedLeaves(name, uids) ==
    IF Connected
    THEN [k \in 1..Len(uids) |->
            Act("leave", name, uids[k], Nil, "hget", HGet(uHash[uids[k]], name), FALSE)]
    ELSE <<>>

\* destroy resumes with the members, starts the leaves and returns
T_destroy_resume(i) ==
    /\ At(i, "test", "destroy", {"hkeys"})
    /\ inflight' = RemoveAt(inflight, i)
                       \o SpawnedLeaves(inflight[i].name, inflight[i].reply)
    /\ last' = Returned("destroy", inflight[i].name, Nil, Nil, Undefined, <<>>)
    /\ UNCHANGED <<impl, life, store, snap, ncalls, serial>>

\* ------------------------------ components: add (lines 96-104, 255-266)
\* JSON.stringify({name, sid}) and JSON.parse of it: the entry of user.<uid>.sids
Entry(name, sid) == <<name, sid>>
EntryName(e) == e[1]
EntrySid(e) == e[2]

\* an entry of user.<uid>.sids that another writer left and that is no JSON
\* text, and whether JSON.parse returns for an entry or throws
CorruptEntry == <<"{", "{">>
Parses(e) == e # CorruptEntry

\* the entries add can write, channel by channel
WrittenOrder ==
    [k \in 1..(Len(ChannelOrder) * Len(ServerOrder)) |->
        Entry(ChannelOrder[((k - 1) \div Len(ServerOrder)) + 1],
              ServerOrder[((k - 1) % Len(ServerOrder)) + 1])]

\* the order in which smembers lists the entries of user.<uid>.sids: those of
\* the first channel, the corrupt one, those of the other channels
EntryOrder ==
    SubSeq(WrittenOrder, 1, Len(ServerOrder)) \o <<CorruptEntry>>
    \o SubSeq(WrittenOrder, Len(ServerOrder) + 1, Len(WrittenOrder))

\* ChannelService.add gate, ChannelManager.add up to
\* `await sadd(user.uid.sids, JSON.stringify({name, sid}))`
C_add(name, uid, sid) ==
    /\ impl = "components"
    /\ CanCall
    /\ Issue
    /\ IF Gated
       THEN /\ ReturnNow("add", Nil, Nil, Nil, Undefined)
            /\ uSids' = uSids
       ELSE IF ~Connected
       THEN /\ ReturnNow("add", name, uid, sid, Threw)
            /\ uSids' = uSids
       ELSE /\ uSids' = [uSids EXCEPT ![uid] = @ \cup {Entry(name, sid)}]
            /\ Suspend(Act("add", name, uid, sid, "saddU", Nil, TRUE))
    /\ UNCHANGED <<impl, life, cHash, sSet, uHash>>

\* `await sadd(name:sid, uid)`
C_add_saddS(i) ==
    /\ At(i, "components", "add", {"saddU"})
    /\ LET a == inflight[i] IN
       IF Connected
       THEN /\ sSet' = [sSet EXCEPT ![a.name][a.sid] = @ \cup {a.uid}]
            /\ Goto(i, "saddS", Nil)
       ELSE /\ sSet' = sSet
            /\ Finish(i, Threw)
    /\ UNCHANGED <<impl, life, cHash, uHash, uSids, snap, ncalls, serial>>

\* `await hset(name, uid, sid)`
C_add_hset(i) ==
    /\ At(i, "components", "add", {"saddS"})
    /\ LET a == inflight[i] IN
       IF Connected
       THEN /\ cHash' = [cHash EXCEPT ![a.name] = HSet(@, a.uid, a.sid)]
            /\ Goto(i, "hset", Nil)
       ELSE /\ cHash' = cHash
            /\ Finish(i, Threw)
    /\ UNCHANGED <<impl, life, sSet, uHash, uSids, snap, ncalls, serial>>

\* the last await of an add settles: the call returns
C_add_return(i) ==
    /\ At(i, "components", "add", {"hset"})
    /\ Finish(i, Undefined)
    /\ UNCHANGED <<impl, life, store, snap, ncalls, serial>>

\* ------------------------------ components: leave (lines 106-131, 278-289)
\* a loop that an entry JSON.parse throws on ends: only the entries before the
\* first such entry are looked at
FromMatchAbort(todo, name) ==
    LET bad == {k \in 1..Len(todo) : ~Parses(todo[k])}
        hits == {k \in 1..Len(todo) :
                    /\ Parses(todo[k]) /\ EntryName(todo[k]) = name
                    /\ \A b \in bad : k < b}
    IN IF hits = {} THEN <<>>
       ELSE SubSeq(todo, CHOOSE k \in hits : \A j \in hits : k <= j, Len(todo))

\* the entries of `members` from the first whose name is `name` on.  An entry
\* JSON.parse throws on is caught by the try around the loop body (lines
\* 112-123) and the loop goes on with the next entry.
FromMatch(todo, name) ==
    LET hits == {k \in 1..Len(todo) :
                    Parses(todo[k]) /\ EntryName(todo[k]) = name}
    IN IF hits = {} THEN <<>>
       ELSE SubSeq(todo, CHOOSE k \in hits : \A j \in hits : k <= j, Len(todo))

\* ChannelService.leave gate; with a sid the first `await srem(user.uid.sids, ..)`,
\* without one `await smembers(user.uid.sids)`
C_leave(name, uid, sid) ==
    /\ impl = "components"
    /\ CanCall
    /\ Issue
    /\ IF Gated
       THEN /\ ReturnNow("leave", Nil, Nil, Nil, Undefined)
            /\ uSids' = uSids
       ELSE IF ~Connected
       THEN /\ ReturnNow("leave", name, uid, sid, Threw)
            /\ uSids' = uSids
       ELSE IF sid # Nil
       THEN /\ uSids' = [uSids EXCEPT ![uid] = @ \ {Entry(name, sid)}]
            /\ Suspend(Act("leave", name, uid, sid, "sremU", sid, TRUE))
       ELSE /\ uSids' = uSids
            /\ Suspend([Act("leave", name, uid, Nil, "smembers", Nil, TRUE)
                            EXCEPT !.todo = SeqOf(uSids[uid], EntryOrder)])
    /\ UNCHANGED <<impl, life, cHash, sSet, uHash>>

\* the loop `for (let i in members)` reaches an entry of this channel:
\* `await srem(user.uid.sids, JSON.stringify(member))`.  A rejected command is
\* caught by the try around the body and the loop goes on.
C_leave_sremU(i) ==
    /\ At(i, "components", "leave", {"smembers", "hdel"})
    /\ inflight[i].sid = Nil
    /\ LET a == inflight[i]
           m == FromMatch(a.todo, a.name)
       IN /\ m # <<>>
          /\ uSids' = IF Connected
                      THEN [uSids EXCEPT ![a.uid] = @ \ {m[1]}] ELSE uSids
          /\ inflight' = [inflight EXCEPT
                ![i].pc = IF Connected THEN "sremU" ELSE "hdel",
                ![i].reply = IF Connected THEN EntrySid(m[1]) ELSE Nil,
                ![i].todo = Tail(m)]
          /\ last' = last
    /\ UNCHANGED <<impl, life, cHash, sSet, uHash, snap, ncalls, serial>>

\* `await srem(name:member.sid, uid)`
C_leave_sremS(i) ==
    /\ At(i, "components", "leave", {"sremU"})
    /\ LET a == inflight[i] IN
       IF Connected
       THEN /\ sSet' = [sSet EXCEPT ![a.name][a.reply] = @ \ {a.uid}]
            /\ Goto(i, "sremS", a.reply)
       ELSE /\ sSet' = sSet
            /\ IF a.sid = Nil THEN Goto(i, "hdel", Nil) ELSE Finish(i, Threw)
    /\ UNCHANGED <<impl, life, cHash, uHash, uSids, snap, ncalls, serial>>

\* `await hdel(name, uid)`
C_leave_hdel(i) ==
    /\ At(i, "components", "leave", {"sremS"})
    /\ LET a == inflight[i] IN
       IF Connected
       THEN /\ cHash' = [cHash EXCEPT ![a.name] = HDel(@, a.uid)]
            /\ Goto(i, "hdel", Nil)
       ELSE /\ cHash' = cHash
            /\ IF a.sid = Nil THEN Goto(i, "hdel", Nil) ELSE Finish(i, Threw)
    /\ UNCHANGED <<impl, life, sSet, uHash, uSids, snap, ncalls, serial>>

\* no entry of this channel is left in `members`: the call returns
C_leave_return(i) ==
    /\ At(i, "components", "leave", {"smembers", "hdel"})
    /\ FromMatch(inflight[i].todo, inflight[i].name) = <<>>
    /\ Finish(i, Undefined)
    /\ UNCHANGED <<impl, life, store, snap, ncalls, serial>>

\* ------------------------------ components: destroyChannel (lines 78-94, 237-243)
\* the keys `${name}${sid}` of the frontend servers
DestroyKeys(name, frontends) == {Pieces(name) \o <<sid>> : sid \in frontends}

\* ChannelService.destroyChannel gate; ChannelManager.destroyChannel up to
\* `await this.redis.multi(cmds).exec()`; frontends are the servers of
\* app.getServers() that app.isFrontend accepts
C_destroyChannel(name, frontends) ==
    /\ impl = "components"
    /\ CanCall
    /\ Issue
    /\ IF Gated
       THEN /\ ReturnNow("destroy", Nil, Nil, Nil, Undefined)
            /\ UNCHANGED store
       ELSE IF frontends = {}
       THEN /\ ReturnNow("destroy", name, Nil, Nil, Undefined)
            /\ UNCHANGED store
       ELSE IF ~Connected
       THEN /\ ReturnNow("destroy", name, Nil, Nil, Threw)
            /\ UNCHANGED store
       ELSE /\ cHash' = DelC(DestroyKeys(name, frontends))
            /\ sSet' = DelS(DestroyKeys(name, frontends))
            /\ uHash' = DelUH(DestroyKeys(name, frontends))
            /\ uSids' = DelUS(DestroyKeys(name, frontends))
            /\ Suspend(Act("destroy", name, Nil, Nil, "exec", Nil, TRUE))
    /\ UNCHANGED <<impl, life>>

\* exec settles: the call returns
C_destroy_return(i) ==
    /\ At(i, "components", "destroy", {"exec"})
    /\ Finish(i, Undefined)
    /\ UNCHANGED <<impl, life, store, snap, ncalls, serial>>

\* ------------------------------ the queries: one store command each
\* What the call returns when it is issued in the current state; a list is
\* given as the set of its elements.
\* test file: ChannelService.len -> ChannelManager.len (lines 179-185, 298-304)
T_len(channel) ==
    IF Gated THEN Undefined
    ELSE IF ~Connected THEN Threw
    ELSE HLen(cHash[channel])

\* test file: members(channel, serverId?) (lines 211-219, 322-328)
T_members(channel, serverId) ==
    IF Gated THEN Undefined
    ELSE IF ~Connected THEN Threw
    ELSE IF serverId # Nil THEN sSet[channel][serverId]
    ELSE HKeys(cHash[channel])

\* test file: ismember(channel, uid) (lines 221-226, 330-336)
T_ismember(channel, uid) ==
    IF Gated THEN Undefined
    ELSE IF ~Connected THEN Threw
    ELSE HExists(cHash[channel], uid)

\* test file: channels(uid) = hkeys(u#uid) (lines 228-234, 338-344)
T_channels(uid) ==
    IF Gated THEN Undefined
    ELSE IF ~Connected THEN Threw
    ELSE HKeys(uHash[uid])

\* components: getMembersBySid (lines 147-153, 300-310)
C_getMembersBySid(name, sid) ==
    IF state # ST_STARTED THEN {}
    ELSE IF redis = "undefined" THEN Undefined
    ELSE IF ~Connected THEN Threw
    ELSE sSet[name][sid]

\* components: getMembersByChannel -> members (lines 133-138, 312-321)
C_getMembersByChannel(name) ==
    IF state # ST_STARTED \/ redis = "undefined" THEN {}
    ELSE IF ~Connected THEN Threw
    ELSE HKeys(cHash[name])

\* components: isMemberInChannel -> ismember (lines 140-145, 323-333)
C_isMemberInChannel(name, uid) ==
    IF state # ST_STARTED \/ redis = "undefined" THEN FALSE
    ELSE IF ~Connected THEN Threw
    ELSE HExists(cHash[name], uid)

\* components: getChannelsByMember -> getChannelsByUid, the parsed entries
\* {name, sid} of user.<uid>.sids (lines 155-173, 373-382)
C_getChannelsByMember(uid) ==
    IF state # ST_STARTED \/ redis = "undefined" THEN {}
    ELSE IF ~Connected THEN Threw
    ELSE uSids[uid]

\* the queries by the names of typings/globalchannel.d.ts
ismember(channel, uid) ==
    IF impl = "test" THEN T_ismember(channel, uid)
    ELSE C_isMemberInChannel(channel, uid)

members(channel) ==
    IF impl = "test" THEN T_members(channel, Nil)
    ELSE C_getMembersByChannel(channel)

membersOn(channel, serverId) ==
    IF impl = "test" THEN T_members(channel, serverId)
    ELSE C_getMembersBySid(channel, serverId)

\* the channels the user's channel list names
channelsOf(uid) ==
    IF impl = "test" THEN T_channels(uid)
    ELSE {EntryName(e) : e \in C_getChannelsByMember(uid)}

\* ------------------------------ pushMessage
\* what app.getServersByType may answer: the ids of some servers, in some order
Directories ==
    {d \in UNION {[1..n -> Servers] : n \in 0..Cardinality(Servers)} :
        \A j, k \in DOMAIN d : j # k => d[j] # d[k]}

\* the route and the message the callers push
PushRoute == "chat"
PushMsg == [text |-> "hi"]

\* app.rpcInvoke(id, params, cb) as the loop calls it
Envelope(id, uids) ==
    [id |-> id, namespace |-> "sys", service |-> "channelRemote",
     method |-> "pushMessage",
     args |-> <<PushRoute, PushMsg, uids, [isPush |-> TRUE]>>]

\* a list that keeps none of what is appended to it
ConcatNone(list, more) == list

\* `list.concat(more)`
Concat(list, more) == list \o more

\* the push ends: the caller gets ret and has seen the remote calls of
\* `invoked`, which answered with `reports`
FinishPush(i, ret, invoked, reports) ==
    /\ inflight' = RemoveAt(inflight, i)
    /\ last' = [Returned("push", inflight[i].name, Nil, Nil, ret, invoked)
                  EXCEPT !.dir = inflight[i].dir,
                         !.reports = reports,
                         !.lookups = inflight[i].lookups]

\* the loop goes on to the servers of `rest` with the lists acc and invoked: it
\* awaits the members of the next server.  Once the gate is shut every further
\* lookup answers at once with nothing, and the loop runs to its end.
NextLookup(i, acc, invoked, reports, rest) ==
    IF rest = <<>> \/ state # ST_STARTED
    THEN FinishPush(i, acc, invoked, reports)
    ELSE IF ~Connected
    THEN FinishPush(i, Threw, invoked, reports)
    ELSE /\ inflight' = [inflight EXCEPT
               ![i].pc = "members",
               ![i].reply = SeqOf(sSet[inflight[i].name][rest[1]], UserOrder),
               ![i].todo = rest, ![i].acc = acc, ![i].invoked = invoked,
               ![i].reports = reports, ![i].lookups = @ + 1]
         /\ last' = last

\* a directory that is never taken for empty
NoServersNever(servers) == FALSE

\* `!servers || servers.length === 0`
NoServers(servers) == servers = <<>>

\* the push returns in the call that issued it, having awaited nothing and
\* called no server, after the directory answered dir
ReturnPush(name, ret, dir) ==
    /\ last' = [Returned("push", name, Nil, Nil, ret, <<>>) EXCEPT !.dir = dir]
    /\ inflight' = inflight

\* the gate, the directory and the first `await this.members(channelName, id)`
\* (test file, lines 346-362) / `await this.getMembersBySid(..)` (components,
\* lines 396-422).  The gate of components logs `{ name, ... }`: no `name` is
\* bound in pushMessage or in the module, and node has no such global, so the
\* refused call rejects with a ReferenceError.  A loop over no server awaits
\* nothing and returns the empty list it began with.
PushCall(im, name, dir) ==
    /\ impl = im
    /\ CanCall
    /\ Issue
    /\ IF Gated
       THEN ReturnNow("push", Nil, Nil, Nil,
                      IF im = "components" THEN ReferenceError ELSE Undefined)
       ELSE IF NoServers(dir)
       THEN ReturnPush(name, Undefined, dir)
       ELSE IF dir = <<>>
       THEN ReturnPush(name, <<>>, dir)
       ELSE IF ~Connected
       THEN ReturnPush(name, Threw, dir)
       ELSE Suspend([Act("push", name, Nil, Nil, "members",
                         SeqOf(sSet[name][dir[1]], UserOrder), TRUE)
                        EXCEPT !.todo = dir, !.dir = dir, !.lookups = 1])
    /\ UNCHANGED <<impl, life, store>>

T_pushMessage(name, dir) == PushCall("test", name, dir)

\* test file, lines 363-375: the members of a server arrive; if there are any,
\* `this.app.rpcInvoke(id, params, () => {})` is called and not awaited, and
\* whatever it reports goes to the empty callback; the result is `users`
T_push_resume(i) ==
    /\ At(i, "test", "push", {"members"})
    /\ LET a == inflight[i]
           uids == a.reply
       IN IF uids # <<>>
          THEN NextLookup(i, Concat(a.acc, uids),
                          Append(a.invoked, Envelope(a.todo[1], uids)),
                          a.reports, Tail(a.todo))
          ELSE NextLookup(i, a.acc, a.invoked, a.reports, Tail(a.todo))
    /\ UNCHANGED <<impl, life, store, snap, ncalls, serial>>

C_pushMessage(name, dir) == PushCall("components", name, dir)

\* components, lines 423-437: the server has members:
\* `await promisify(this.app.rpcInvoke.bind(this.app))(id, params)`
C_push_invoke(i) ==
    /\ At(i, "components", "push", {"members"})
    /\ inflight[i].reply # <<>>
    /\ inflight' = [inflight EXCEPT
          ![i].pc = "rpc",
          ![i].invoked = Append(@, Envelope(inflight[i].todo[1], inflight[i].reply))]
    /\ last' = last
    /\ UNCHANGED <<impl, life, store, snap, ncalls, serial>>

\* components, line 423: the server has no members: on to the next one
C_push_skip(i) ==
    /\ At(i, "components", "push", {"members"})
    /\ inflight[i].reply = <<>>
    /\ NextLookup(i, inflight[i].acc, inflight[i].invoked, inflight[i].reports,
                  Tail(inflight[i].todo))
    /\ UNCHANGED <<impl, life, store, snap, ncalls, serial>>

\* components, lines 433-438: the remote call settles.  rpcInvoke reports either
\* an error, and the promise rejects inside pushMessage, which has no try around
\* it, or the uids the server could not deliver to, appended to failIds
\* (`if (fails) failIds = failIds.concat(fails)`)
C_push_rpc(i, error, fails) ==
    /\ At(i, "components", "push", {"rpc"})
    /\ fails \subseteq Range(inflight[i].reply)
    /\ IF error
       THEN FinishPush(i, Threw, inflight[i].invoked, inflight[i].reports)
       ELSE NextLookup(i, Concat(inflight[i].acc, SeqOf(fails, UserOrder)),
                       inflight[i].invoked,
                       Append(inflight[i].reports, SeqOf(fails, UserOrder)),
                       Tail(inflight[i].todo))
    /\ UNCHANGED <<impl, life, store, snap, ncalls, serial>>

\* ----------------------------------------------------------- the system
\* what an earlier run of the service may have left in the store: nothing, or
\* one membership
LeftName == "lobby"
LeftUid == "u1"
LeftSid == "srvA"

\* the store a service finds
InitStore ==
    \E left \in BOOLEAN :
       /\ cHash = [c \in Channels |-> [u \in Users |->
                     IF left /\ c = LeftName /\ u = LeftUid THEN LeftSid ELSE Nil]]
       /\ sSet = [c \in Channels |-> [s \in Servers |->
                     IF left /\ c = LeftName /\ s = LeftSid THEN {LeftUid} ELSE {}]]
       /\ uHash = [u \in Users |-> [c \in Channels |->
                     IF left /\ impl = "test" /\ c = LeftName /\ u = LeftUid
                     THEN LeftSid ELSE Nil]]
       /\ uSids = [u \in Users |->
                     IF left /\ impl = "components" /\ u = LeftUid
                     THEN {Entry(LeftName, LeftSid)} ELSE {}]

\* a service that was constructed and not started, and no call made
InitService ==
    /\ started = FALSE
    /\ state = ST_INITED
    /\ redis = "undefined"
    /\ readyDue = FALSE
    /\ reconnects = 0
    /\ inflight = <<>>
    /\ last = NoCall
    /\ snap = store
    /\ ncalls = 0
    /\ serial = TRUE

Init ==
    /\ impl \in Impls
    /\ cleanOnStartUp \in BOOLEAN
    /\ callers = MaxInFlight
    /\ InitStore
    /\ InitService

Next ==
    \/ Start
    \/ Ready
    \/ Stop
    \/ \E i \in 1..Len(inflight) : \E n \in 0..Len(inflight[i].todo) : T_cleanup_batch(i, n)
    \/ \E i \in 1..Len(inflight) : C_clean_del(i)
    \/ \E i \in 1..Len(inflight) : C_clean_done(i)
    \/ \E i \in 1..Len(inflight) : SweepRejects(i)
    \/ \E c \in Channels, u \in Users, s \in Servers : T_add(c, u, s)
    \/ \E i \in 1..Len(inflight) : T_add_srem(i)
    \/ \E i \in 1..Len(inflight) : T_add_hsetU(i)
    \/ \E i \in 1..Len(inflight) : T_add_sadd(i)
    \/ \E i \in 1..Len(inflight) : T_add_hsetC(i)
    \/ \E i \in 1..Len(inflight) : T_add_return(i)
    \/ \E c \in Channels, u \in Users, s \in Servers \cup {Nil} : T_leave(c, u, s)
    \/ \E i \in 1..Len(inflight) : T_leave_resume(i)
    \/ \E c \in Channels : T_destroy(c)
    \/ \E i \in 1..Len(inflight) : T_destroy_resume(i)
    \/ \E c \in Channels, u \in Users, s \in Servers : C_add(c, u, s)
    \/ \E i \in 1..Len(inflight) : C_add_saddS(i)
    \/ \E i \in 1..Len(inflight) : C_add_hset(i)
    \/ \E i \in 1..Len(inflight) : C_add_return(i)
    \/ \E c \in Channels, u \in Users, s \in Servers \cup {Nil} : C_leave(c, u, s)
    \/ \E i \in 1..Len(inflight) : C_leave_sremU(i)
    \/ \E i \in 1..Len(inflight) : C_leave_sremS(i)
    \/ \E i \in 1..Len(inflight) : C_leave_hdel(i)
    \/ \E i \in 1..Len(inflight) : C_leave_return(i)
    \/ \E c \in Channels, fe \in SUBSET Servers : C_destroyChannel(c, fe)
    \/ \E i \in 1..Len(inflight) : C_destroy_return(i)
    \/ \E c \in Channels, d \in Directories : T_pushMessage(c, d)
    \/ \E i \in 1..Len(inflight) : T_push_resume(i)
    \/ \E c \in Channels, d \in Directories : C_pushMessage(c, d)
    \/ \E i \in 1..Len(inflight) : C_push_invoke(i)
    \/ \E i \in 1..Len(inflight) : C_push_skip(i)
    \/ \E i \in 1..Len(inflight), e \in BOOLEAN, f \in SUBSET Users : C_push_rpc(i, e, f)

Spec == Init /\ [][Next]_vars


\* ------------------------------------------- callers that do not take turns
\* The membership operations of a started service whose callers keep one call
\* more in flight than those of Spec: the calls overlap, and their store
\* commands interleave at the awaits.
InitRace ==
    /\ impl \in Impls
    /\ cleanOnStartUp = FALSE
    /\ callers = MaxInFlight + 1
    /\ InitStore
    /\ InitService

NextRace ==
    \/ Start
    \/ Ready
    \/ \E c \in Channels, u \in Users, s \in Servers : T_add(c, u, s)
    \/ \E i \in 1..Len(inflight) : T_add_srem(i)
    \/ \E i \in 1..Len(inflight) : T_add_hsetU(i)
    \/ \E i \in 1..Len(inflight) : T_add_sadd(i)
    \/ \E i \in 1..Len(inflight) : T_add_hsetC(i)
    \/ \E i \in 1..Len(inflight) : T_add_return(i)
    \/ \E c \in Channels, u \in Users, s \in Servers \cup {Nil} : T_leave(c, u, s)
    \/ \E i \in 1..Len(inflight) : T_leave_resume(i)
    \/ \E c \in Channels : T_destroy(c)
    \/ \E i \in 1..Len(inflight) : T_destroy_resume(i)
    \/ \E c \in Channels, u \in Users, s \in Servers : C_add(c, u, s)
    \/ \E i \in 1..Len(inflight) : C_add_saddS(i)
    \/ \E i \in 1..Len(inflight) : C_add_hset(i)
    \/ \E i \in 1..Len(inflight) : C_add_return(i)
    \/ \E c \in Channels, u \in Users, s \in Servers \cup {Nil} : C_leave(c, u, s)
    \/ \E i \in 1..Len(inflight) : C_leave_sremU(i)
    \/ \E i \in 1..Len(inflight) : C_leave_sremS(i)
    \/ \E i \in 1..Len(inflight) : C_leave_hdel(i)
    \/ \E i \in 1..Len(inflight) : C_leave_return(i)
    \/ \E c \in Channels, fe \in SUBSET Servers : C_destroyChannel(c, fe)
    \/ \E i \in 1..Len(inflight) : C_destroy_return(i)

SpecRace == InitRace /\ [][NextRace]_vars

\* ------------------------------------------- a reverse index with a bad entry
\* The components service over a store in which another writer left, in the
\* set user.<uid>.sids of one user, an entry that is no JSON text, next to
\* what an earlier run may have left.
InitCorrupt ==
    /\ impl = "components"
    /\ cleanOnStartUp = FALSE
    /\ callers = MaxInFlight
    /\ \E left \in BOOLEAN :
          /\ cHash = [c \in Channels |-> [u \in Users |->
                        IF left /\ c = LeftName /\ u = LeftUid THEN LeftSid ELSE Nil]]
          /\ sSet = [c \in Channels |-> [s \in Servers |->
                        IF left /\ c = LeftName /\ s = LeftSid THEN {LeftUid} ELSE {}]]
          /\ uHash = [u \in Users |-> [c \in Channels |-> Nil]]
          /\ uSids = [u \in Users |->
                        IF u # LeftUid THEN {}
                        ELSE IF left THEN {Entry(LeftName, LeftSid), CorruptEntry}
                        ELSE {CorruptEntry}]
    /\ InitService

NextCorrupt ==
    \/ Start
    \/ Ready
    \/ \E c \in Channels, u \in Users, s \in Servers : C_add(c, u, s)
    \/ \E i \in 1..Len(inflight) : C_add_saddS(i)
    \/ \E i \in 1..Len(inflight) : C_add_hset(i)
    \/ \E i \in 1..Len(inflight) : C_add_return(i)
    \/ \E c \in Channels, u \in Users, s \in Servers \cup {Nil} : C_leave(c, u, s)
    \/ \E i \in 1..Len(inflight) : C_leave_sremU(i)
    \/ \E i \in 1..Len(inflight) : C_leave_sremS(i)
    \/ \E i \in 1..Len(inflight) : C_leave_hdel(i)
    \/ \E i \in 1..Len(inflight) : C_leave_return(i)

SpecCorrupt == InitCorrupt /\ [][NextCorrupt]_vars

\* ------------------------------------------- a connection that is made again
\* A service configured with cleanOnStartUp whose connection is lost and made
\* again, and its adds.
InitReconnect ==
    /\ impl \in Impls
    /\ cleanOnStartUp = TRUE
    /\ callers = MaxInFlight
    /\ InitStore
    /\ InitService

NextReconnect ==
    \/ Start
    \/ Ready
    \/ Reconnect
    \/ \E i \in 1..Len(inflight) : \E n \in 0..Len(inflight[i].todo) : T_cleanup_batch(i, n)
    \/ \E i \in 1..Len(inflight) : C_clean_del(i)
    \/ \E i \in 1..Len(inflight) : C_clean_done(i)
    \/ \E c \in Channels, u \in Users, s \in Servers : T_add(c, u, s)
    \/ \E i \in 1..Len(inflight) : T_add_srem(i)
    \/ \E i \in 1..Len(inflight) : T_add_hsetU(i)
    \/ \E i \in 1..Len(inflight) : T_add_sadd(i)
    \/ \E i \in 1..Len(inflight) : T_add_hsetC(i)
    \/ \E i \in 1..Len(inflight) : T_add_return(i)
    \/ \E c \in Channels, u \in Users, s \in Servers : C_add(c, u, s)
    \/ \E i \in 1..Len(inflight) : C_add_saddS(i)
    \/ \E i \in 1..Len(inflight) : C_add_hset(i)
    \/ \E i \in 1..Len(inflight) : C_add_return(i)

SpecReconnect == InitReconnect /\ [][NextReconnect]_vars

\* ------------------------------------------- a start whose store calls settle
\* The start of a service and its adds, every store command the startup sweep
\* awaits being answered or rejected in the end.
SweepStep ==
    \/ \E i \in 1..Len(inflight) : \E n \in 0..Len(inflight[i].todo) : T_cleanup_batch(i, n)
    \/ \E i \in 1..Len(inflight) : C_clean_del(i)
    \/ \E i \in 1..Len(inflight) : C_clean_done(i)
    \/ \E i \in 1..Len(inflight) : SweepRejects(i)

NextStart ==
    \/ Start
    \/ Ready
    \/ SweepStep
    \/ \E c \in Channels, u \in Users, s \in Servers : T_add(c, u, s)
    \/ \E i \in 1..Len(inflight) : T_add_srem(i)
    \/ \E i \in 1..Len(inflight) : T_add_hsetU(i)
    \/ \E i \in 1..Len(inflight) : T_add_sadd(i)
    \/ \E i \in 1..Len(inflight) : T_add_hsetC(i)
    \/ \E i \in 1..Len(inflight) : T_add_return(i)
    \/ \E c \in Channels, u \in Users, s \in Servers : C_add(c, u, s)
    \/ \E i \in 1..Len(inflight) : C_add_saddS(i)
    \/ \E i \in 1..Len(inflight) : C_add_hset(i)
    \/ \E i \in 1..Len(inflight) : C_add_return(i)

SpecStart == Init /\ [][NextStart]_vars /\ WF_vars(Ready) /\ WF_vars(SweepStep)

\* ------------------------------------------------------------ properties
\* every call so far was made one at a time, nothing is in flight, and the
\* service is Started on an open connection
Settled == serial /\ Quiescent /\ state = ST_STARTED /\ Connected

\* the call that returned last was `op`, passed the gate and returned normally
LastOk(op) == last.op = op /\ last.name # Nil /\ last.ret = Undefined

\* the servers whose member set of channel c holds u
ServersOf(c, u) == {s \in Servers : u \in membersOn(c, s)}

\* C1 (P2, I1): after completed adds and leaves, made one at a time in state
\* Started, every (channel, user) pair is in the member set of at most one
\* server; after add(c,u,s1) then add(c,u,s2) the user is on s2 and not on s1.
C1_OneServerPerUser ==
    Settled =>
        /\ \A c \in Channels, u \in Users : Cardinality(ServersOf(c, u)) <= 1
        /\ (/\ LastOk("add")
            /\ last.prev.op = "add" /\ last.prev.ret = Undefined
            /\ last.prev.name = last.name /\ last.prev.uid = last.uid
            /\ last.prev.sid # last.sid)
           => ServersOf(last.name, last.uid) = {last.sid}

\* channel c has no record left in any of the three indexes
NoRecord(c) ==
    /\ HKeys(cHash[c]) = {}
    /\ \A s \in Servers : sSet[c][s] = {}
    /\ \A u \in Users : uHash[u][c] = Nil
    /\ \A u \in Users : \A e \in uSids[u] : EntryName(e) # c

\* C2 (P4, I3): once destroy(c) has returned to its caller, and before the
\* caller's next call, len(c) is 0, members(c) is empty and no index holds a
\* record of c.
C2_DestroyEmpties ==
    (/\ serial /\ Awaited = {} /\ state = ST_STARTED /\ Connected
     /\ LastOk("destroy"))
    => /\ impl = "test" => T_len(last.name) = 0
       /\ members(last.name) = {}
       /\ NoRecord(last.name)

\* the user index records u in channel c on server s
UserMaps(u, c, s) ==
    IF impl = "test" THEN uHash[u][c] = s ELSE Entry(c, s) \in uSids[u]

\* C3 (I2): in every quiescent state reached by calls made one at a time in
\* state Started the three indexes agree: c maps u to s iff u is in the set of
\* (c, s) iff the user index of u records c on s.
C3_IndexesAgree ==
    Settled =>
        \A c \in Channels, u \in Users, s \in Servers :
            /\ (cHash[c][u] = s) <=> (u \in sSet[c][s])
            /\ (u \in sSet[c][s]) <=> UserMaps(u, c, s)

\* what the queries answer is empty or undefined
ReadsEmpty ==
    IF impl = "test"
    THEN /\ \A c \in Channels : T_len(c) = Undefined
         /\ \A c \in Channels, s \in Servers \cup {Nil} : T_members(c, s) = Undefined
         /\ \A c \in Channels, u \in Users : T_ismember(c, u) = Undefined
         /\ \A u \in Users : T_channels(u) = Undefined
    ELSE /\ \A c \in Channels : C_getMembersByChannel(c) = {}
         /\ \A c \in Channels, s \in Servers : C_getMembersBySid(c, s) = {}
         /\ \A c \in Channels, u \in Users : C_isMemberInChannel(c, u) = FALSE
         /\ \A u \in Users : C_getChannelsByMember(u) = {}

\* C4 (P5, I4): while the state is not Started the queries answer empty or
\* undefined, and a call that is made returns at once, with an undefined result
\* and no remote call, awaits no store command and leaves the store as it was.
C4_NotStartedGate ==
    [][state # ST_STARTED =>
          /\ ReadsEmpty
          /\ cHash' = cHash /\ sSet' = sSet /\ uHash' = uHash /\ uSids' = uSids
          /\ ncalls' = ncalls + 1 =>
                /\ inflight' = inflight
                /\ last'.ret = Undefined
                /\ last'.invoked = <<>>]_vars

\* C5: once the state is Closed it stays Closed.
C5_ClosedIsTerminal == [][state = ST_CLOSED => state' = ST_CLOSED]_vars

\* the push that returned last ran alone, from its first lookup to its return,
\* in state Started on an open connection
PushSettled == Settled /\ last.op = "push" /\ last.name # Nil

\* the servers of the directory that hold members of the pushed channel
Holding == {s \in Range(last.dir) : sSet[last.name][s] # {}}

\* the servers the push called
Invoked == {last.invoked[k].id : k \in DOMAIN last.invoked}

\* C6 (P6): a push over two or more servers holding members is not aborted by
\* the failure of one remote call: it returns a result and has called every
\* server holding members.
C6_FanOutIndependence ==
    (PushSettled /\ Cardinality(Holding) >= 2)
    => /\ last.ret # Threw
       /\ Holding \subseteq Invoked

\* C7: a push calls exactly the servers of the directory whose member set of
\* the channel is not empty, each once, under its own id, with the arguments
\* [route, payload, uids, {isPush: true}], uids being that server's members.
C7_PushTargets ==
    PushSettled =>
        /\ Invoked = Holding
        /\ \A j, k \in DOMAIN last.invoked :
              last.invoked[j].id = last.invoked[k].id => j = k
        /\ \A k \in DOMAIN last.invoked :
              last.invoked[k] =
                 Envelope(last.invoked[k].id,
                          SeqOf(sSet[last.name][last.invoked[k].id], UserOrder))

\* C8 (P1): once add(c,u,s) has completed, ismember(c,u) is true and
\* members(c,s) contains u, whatever adds and leaves came before.
C8_JoinRead ==
    (Settled /\ LastOk("add"))
    => /\ ismember(last.name, last.uid) = TRUE
       /\ last.uid \in membersOn(last.name, last.sid)

\* an add has completed for a user who was in the channel on another server
C8_Witness ==
    /\ Settled /\ LastOk("add")
    /\ snap[1][last.name][last.uid] \notin {Nil, last.sid}
    /\ ismember(last.name, last.uid) = TRUE

\* the call that returned last is leave(c,u) without a server, and the call
\* before it add(c,u,s); both passed the gate and returned normally
AddThenLeave ==
    /\ LastOk("leave") /\ last.sid = Nil
    /\ last.prev.op = "add" /\ last.prev.ret = Undefined
    /\ last.prev.name = last.name /\ last.prev.uid = last.uid

\* C9 (P3): after add(c,u,s) then leave(c,u), ismember(c,u) is false,
\* members(c,s) does not contain u and the channels of u do not list c; also
\* when u had been on another server of c before the add.
C9_LeaveTotal ==
    (Settled /\ AddThenLeave)
    => /\ ismember(last.name, last.uid) = FALSE
       /\ last.uid \notin membersOn(last.name, last.prev.sid)
       /\ last.name \notin channelsOf(last.uid)

\* add then leave have completed for a user whom the add had moved from another
\* server, whose set still lists the user
C9_Witness ==
    /\ Settled /\ AddThenLeave
    /\ \E s \in Servers \ {last.prev.sid} : last.uid \in membersOn(last.name, s)
    /\ ismember(last.name, last.uid) = FALSE

\* C10: len(c) is the number of distinct users joined to c: an add of a user
\* who is not yet a member raises it by one, an add of a member or to another
\* channel leaves it, a leave of a member lowers it by one.
C10_LenCounts ==
    (Settled /\ impl = "test")
    => /\ \A c \in Channels :
            T_len(c) = Cardinality({u \in Users : T_ismember(c, u) = TRUE})
       /\ LastOk("add") =>
            \A c \in Channels :
               T_len(c) = HLen(snap[1][c])
                          + (IF c = last.name /\ ~HExists(snap[1][c], last.uid)
                             THEN 1 ELSE 0)
       /\ LastOk("leave") =>
            \A c \in Channels :
               T_len(c) = HLen(snap[1][c])
                          - (IF c = last.name /\ HExists(snap[1][c], last.uid)
                             THEN 1 ELSE 0)

\* a second user has just been added to a channel while the other channel has
\* none: the lengths are 2 and 0
C10_Witness ==
    /\ Settled /\ impl = "test" /\ LastOk("add")
    /\ T_len(last.name) = 2
    /\ HLen(snap[1][last.name]) = 1
    /\ \E c \in Channels \ {last.name} : T_len(c) = 0

\* what the three indexes record of user u in channel c
RecordOf(cH, sS, uH, uS, c, u) ==
    <<cH[c][u], {s \in Servers : u \in sS[c][s]}, uH[u][c],
      {e \in uS[u] : EntryName(e) = c}>>

\* the indexes record of u in c what they recorded when the latest call began
SameRecord(c, u) ==
    RecordOf(cHash, sSet, uHash, uSids, c, u)
        = RecordOf(snap[1], snap[2], snap[3], snap[4], c, u)

\* the call that returned last is leave(c,u) without a server, for a user the
\* channel map of c did not hold when the call began
LeftAsNonMember ==
    /\ Settled /\ last.op = "leave" /\ last.name # Nil /\ last.sid = Nil
    /\ ~HExists(snap[1][last.name], last.uid)

\* C11: leave(c,u) of a user who is not a member of c completes without error
\* and leaves len(c), the members of c and the records of u in every other
\* channel, in all three indexes, as they were.
C11_LeaveNonMember ==
    LeftAsNonMember
    => /\ last.ret = Undefined
       /\ members(last.name) = HKeys(snap[1][last.name])
       /\ impl = "test" => T_len(last.name) = HLen(snap[1][last.name])
       /\ \A c \in Channels \ {last.name} : SameRecord(c, last.uid)

\* the leave of the repository's test: the user is in the other channel only,
\* and the channel left has a member
C11_Witness ==
    /\ LeftAsNonMember /\ last.ret = Undefined
    /\ HLen(cHash[last.name]) = 1
    /\ \E c \in Channels \ {last.name} : HExists(cHash[c], last.uid)

\* C12: with cleanOnStartUp, at the step in which start() calls its callback
\* (no call has been made yet) the store holds no key under the prefix: every
\* key that was there when start() was called has been deleted.
C12_SweepDeletesAll ==
    [][(cleanOnStartUp /\ ncalls = 0 /\ ~started /\ started')
          => ExistingKeys' = {}]_vars

\* the three indexes agree about user u in channel c: one server in all three,
\* or no record in any
AgreeOn(c, u) ==
    \/ /\ cHash[c][u] = Nil
       /\ \A s \in Servers : u \notin sSet[c][s] /\ ~UserMaps(u, c, s)
    \/ \E s \in Servers :
          /\ cHash[c][u] = s
          /\ \A t \in Servers : (u \in sSet[c][t]) <=> (t = s)
          /\ \A t \in Servers : UserMaps(u, c, t) <=> (t = s)

\* two calls overlapped and have settled, and no other call was made: an add
\* and a leave of one (channel, user), or a leave and a destroy of one channel
RaceSettled ==
    /\ ~serial /\ Quiescent /\ ncalls = 2 /\ state = ST_STARTED /\ Connected
    /\ last.name # Nil /\ last.prev.name = last.name
    /\ last.ret = Undefined /\ last.prev.ret = Undefined
    /\ \/ {last.op, last.prev.op} = {"add", "leave"} /\ last.uid = last.prev.uid
       \/ {last.op, last.prev.op} = {"leave", "destroy"}

\* C13: after a concurrent add and leave of one (channel, user), or a leave
\* racing a destroy of its channel, once every call in flight has settled the
\* three indexes agree about that (channel, user).
C13_RaceSettles ==
    RaceSettled =>
        \A u \in Users : (u \in {last.uid, last.prev.uid}) => AgreeOn(last.name, u)

\* the user index recorded u in channel c on server s when the latest call began
UserMapped(u, c, s) ==
    IF impl = "test" THEN snap[3][u][c] = s ELSE Entry(c, s) \in snap[4][u]

\* C14: while an add or a leave is suspended between two of its writes, no
\* other call being in flight, a reader finds no per-server entry and no user
\* index entry of a user the channel map does not hold; and an add has written
\* the channel map (forward) before it writes the user index (reverse).
C14_WriteOrder ==
    (/\ serial /\ state = ST_STARTED /\ Connected
     /\ Len(inflight) = 1 /\ inflight[1].caller
     /\ inflight[1].op \in {"add", "leave"})
    => LET c == inflight[1].name
           u == inflight[1].uid
       IN /\ cHash[c][u] = Nil =>
                \A s \in Servers : u \notin sSet[c][s] /\ ~UserMaps(u, c, s)
          /\ (/\ inflight[1].op = "add"
              /\ ~UserMapped(u, c, inflight[1].sid)
              /\ UserMaps(u, c, inflight[1].sid))
             => cHash[c][u] = inflight[1].sid

\* no index holds a record of user u in channel c
Absent(c, u) ==
    /\ cHash[c][u] = Nil
    /\ \A s \in Servers : u \notin sSet[c][s] /\ ~UserMaps(u, c, s)

\* C15: after leave(c,u,s) with an explicit server has completed, whichever
\* server was recorded for (c,u), no per-server set of c holds u, the channel
\* map of c has no entry for u and the user index of u none for c.
C15_ExplicitLeave ==
    (Settled /\ LastOk("leave") /\ last.sid # Nil) => Absent(last.name, last.uid)

\* the store that a completed leave(c,u) without a server makes of the store
\* st = <<channel maps, per-server sets, user hashes, user entry sets>>
LeaveOn(st, c, u) ==
    IF impl = "test"
    THEN LET sid == HGet(st[3][u], c)
         IN <<[st[1] EXCEPT ![c] = HDel(@, u)],
              IF sid # Nil THEN [st[2] EXCEPT ![c][sid] = @ \ {u}] ELSE st[2],
              [st[3] EXCEPT ![u] = HDel(@, c)],
              st[4]>>
    ELSE LET es == {e \in st[4][u] : EntryName(e) = c}
         IN IF es = {} THEN st
            ELSE <<[st[1] EXCEPT ![c] = HDel(@, u)],
                   [st[2] EXCEPT ![c] =
                       [s \in Servers |-> IF Entry(c, s) \in es
                                          THEN st[2][c][s] \ {u} ELSE st[2][c][s]]],
                   st[3],
                   [st[4] EXCEPT ![u] = @ \ es]>>

\* the store after leave(c,u) was called and awaited for every u of us in turn
RECURSIVE LeavesOn(_, _, _)
LeavesOn(st, c, us) ==
    IF us = <<>> THEN st ELSE LeavesOn(LeaveOn(st, c, Head(us)), c, Tail(us))

\* C16: once a destroy(c) made with nothing else in flight has returned and
\* the leaves it started have settled, the store is the one that leave(c,u),
\* called in turn for every member c had when destroy began, would have made.
C16_DestroyAsLeaves ==
    (Settled /\ LastOk("destroy"))
    => store = LeavesOn(snap, last.name,
                        SeqOf(HKeys(snap[1][last.name]), UserOrder))

\* the two calls that returned last are the same add(c,u,s), one after the other
AddedTwice ==
    /\ Settled /\ LastOk("add")
    /\ last.prev.op = "add" /\ last.prev.ret = Undefined
    /\ last.prev.name = last.name /\ last.prev.uid = last.uid
    /\ last.prev.sid = last.sid

\* C17: add is idempotent: after two successive completed add(c,u,s) the three
\* indexes are what they were after the first, and so is len(c).
C17_AddIdempotent ==
    AddedTwice
    => /\ store = snap
       /\ impl = "test" => T_len(last.name) = HLen(snap[1][last.name])

\* the same add was made twice for a user whom the first add had moved from
\* another server
C17_Witness ==
    /\ AddedTwice
    /\ ismember(last.name, last.uid) = TRUE
    /\ last.uid \in membersOn(last.name, last.sid)
    /\ \E s \in Servers \ {last.sid} : last.uid \in membersOn(last.name, s)

\* C18: when a store command of an add or of a leave is rejected and the call
\* fails, none of the call's writes has been applied: the three indexes are
\* what they were when the call began.
C18_NoPartialWrite ==
    (serial /\ Quiescent /\ last.op \in {"add", "leave"} /\ last.ret = Threw)
    => store = snap

\* the lists of a sequence of lists, one after the other
RECURSIVE Flatten(_)
Flatten(lists) ==
    IF lists = <<>> THEN <<>> ELSE lists[1] \o Flatten(Tail(lists))

\* where the directory of the last push lists server s
DirIndex(s) == CHOOSE k \in DOMAIN last.dir : last.dir[k] = s

\* the last call was a push of the failure-reporting service that found
\* servers, and every remote call it made was answered with a failure list
AllReported ==
    /\ PushSettled
    /\ impl = "components"
    /\ last.dir # <<>>
    /\ Len(last.reports) = Len(last.invoked)

\* C19: when every remote call of a push completes without a transport error,
\* the push returns the failure lists the called servers reported, one after
\* the other in the order of the directory: a uid is in the result exactly
\* when some called server reported it undelivered, and a server reporting
\* no failure adds nothing.
C19_AggregateFailures ==
    AllReported =>
        /\ last.ret = Flatten(last.reports)
        /\ \A j, k \in DOMAIN last.invoked :
              j < k => DirIndex(last.invoked[j].id) < DirIndex(last.invoked[k].id)
        /\ \A u \in Users :
              (\E k \in DOMAIN last.ret : last.ret[k] = u)
              <=> (\E k \in DOMAIN last.reports : u \in Range(last.reports[k]))

\* a push called two servers; one reported a failure, the other none
C19_Witness ==
    /\ AllReported
    /\ Len(last.invoked) = 2
    /\ \E j, k \in DOMAIN last.reports :
          last.reports[j] = <<>> /\ last.reports[k] # <<>>

\* the last call was a push that passed the gate, so was made in state
\* Started, and the directory answered it with no server
NoTargets == last.op = "push" /\ last.name # Nil /\ last.dir = <<>>

\* C20: a push in state Started for which the directory lists no server
\* awaits no member list, calls no server and returns without a value and
\* without an error.
C20_NoTargetsReturn ==
    NoTargets =>
        /\ last.lookups = 0
        /\ last.invoked = <<>>
        /\ last.ret = Undefined

\* such a push returned while a server held members of the pushed channel
C20_Witness ==
    /\ NoTargets
    /\ state = ST_STARTED
    /\ \E s \in Servers : sSet[last.name][s] # {}

\* the last call was a completed leave(c,u) without a server, made when the
\* reverse index of u held the corrupt entry
LeftPastCorrupt ==
    /\ Settled
    /\ last.op = "leave" /\ last.name # Nil /\ last.sid = Nil
    /\ CorruptEntry \in snap[4][last.uid]

\* C21: leave(c,u) without a server skips a reverse-index entry of u that does
\* not parse: it returns normally, every well-formed entry of u for c that the
\* call found is gone from the reverse index, u is gone from the per-server
\* set the entry names and from the channel map of c, whether the entry comes
\* before or after the corrupt one, and the corrupt entry is left alone.
C21_CorruptSkipped ==
    LeftPastCorrupt =>
        /\ last.ret = Undefined
        /\ CorruptEntry \in uSids[last.uid]
        /\ \A e \in snap[4][last.uid] :
              (Parses(e) /\ EntryName(e) = last.name) =>
                 /\ e \notin uSids[last.uid]
                 /\ last.uid \notin sSet[last.name][EntrySid(e)]
                 /\ cHash[last.name][last.uid] = Nil

\* such a leave removed an entry that smembers lists after the corrupt one
C21_Witness ==
    /\ LeftPastCorrupt
    /\ \E e \in snap[4][last.uid] :
          /\ Parses(e) /\ EntryName(e) = last.name
          /\ \E j, k \in DOMAIN EntryOrder :
                j < k /\ EntryOrder[j] = CorruptEntry /\ EntryOrder[k] = e

\* the startup sweep is running
Sweeping == \E i \in 1..Len(inflight) : inflight[i].op \in {"cleanup", "clean"}

\* the connection reported ready, the sweep was due, and it ended without
\* start's callback being called: a store command of the sweep was rejected
SweepFailed ==
    /\ cleanOnStartUp
    /\ redis # "undefined" /\ ~readyDue
    /\ ~Sweeping
    /\ ~started

\* C22: a failed startup sweep does not keep the service at Inited: once the
\* connection has reported ready the state has left Inited, and it is Started
\* for as long as the connection stop() quits is open.
C22_FailedSweepStarted ==
    SweepFailed =>
        /\ state # ST_INITED
        /\ Connected => state = ST_STARTED

\* the sweep failed on an open connection, and a call passed the gate after it
C22_Witness ==
    /\ SweepFailed
    /\ Connected
    /\ last.op = "add" /\ last.name # Nil /\ last.ret = Undefined

\* C23: the startup sweep runs once for one start(): once start's callback
\* has been called no sweep is running any more, however often the connection
\* reports ready, so no later sweep wipes what was added since.
C23_SweepOnce == started => ~Sweeping

\* the three index entries add(c,u,s) writes are in the store
Written(c, u, s) ==
    /\ cHash[c][u] = s
    /\ u \in sSet[c][s]
    /\ UserMaps(u, c, s)

\* C24: the startup sweep and the adds of the same service do not meet: no
\* add is past the state gate while the sweep is running, and once an add,
\* the only call made, has completed and the sweep is over, the three entries
\* the add wrote are there.
C24_SweepSparesAdds ==
    /\ Sweeping => \A i \in 1..Len(inflight) : inflight[i].op # "add"
    /\ (/\ Quiescent /\ state = ST_STARTED /\ Connected
        /\ ncalls = 1 /\ LastOk("add"))
       => Written(last.name, last.uid, last.sid)

\* stop() has run: it set the state to Closed, or quit the connection
Stopped == state = ST_CLOSED \/ redis = "quit"

WroteAlone ==
    /\ serial /\ Quiescent
    /\ last.op \in {"add", "leave", "destroy"} /\ last.name # Nil

\* C26: add(c,u,s), leave(c,u,..) and destroy(c) change entries of channel c
\* only: of every other channel the indexes record for every user what they
\* recorded when the call began, and an add or a leave of (c,u) leaves what
\* they record of every other user in c.
C26_Frame ==
    WroteAlone =>
        /\ \A c \in Channels \ {last.name} : \A u \in Users : SameRecord(c, u)
        /\ last.op \in {"add", "leave"} =>
              \A u \in Users \ {last.uid} : SameRecord(last.name, u)


\* start() was called and the connection has reported ready
ReadyReported == redis # "undefined" /\ ~readyDue

\* C27: once start() was called and the connection has reported ready, the
\* callback given to start() is called in the end, with or without a startup
\* sweep and whether the sweep succeeds or fails, every store command being
\* answered or rejected in the end.
C27_StartCallsBack == ReadyReported ~> started
====
